---- MODULE Spec2Model ----
(***************************************************************************)
(* POLi payment provider plugin for pretix (pretix.plugins.poli).          *)
(*                                                                         *)
(* The model follows one order with one POLi payment through the plugin's  *)
(* operations: the currency check, the two initiate operations             *)
(* (checkout_prepare, payment_prepare), the status query of                *)
(* execute_payment and the status reconciliation of                        *)
(* process_transaction_result.  The gateway is the environment: every      *)
(* HTTP call draws its outcome (network failure, non-2xx answer, or a JSON *)
(* body) from a small set.  The host framework owns the payment state      *)
(* machine; its confirm(), fail() and cancel() are modelled by what the    *)
(* plugin relies on.                                                       *)
(*                                                                         *)
(* Five specifications share the state:                                    *)
(*   Spec          the provider's operations on the payment                *)
(*   SpecReminder  the order-placed mail, its filter and the reminder task *)
(*   SpecShred     data redaction among the provider's operations          *)
(*   SpecViews     the return, cancel and webhook endpoints                *)
(*   SpecRace      concurrent reconciliations, statement by statement      *)
(***************************************************************************)
EXTENDS Integers, Sequences, FiniteSets, TLC

VARIABLES
    payment,     \* the OrderPayment row: [state, info]
    session,     \* request.session of the buyer (a dict)
    orderLog,    \* entries written with payment.order.log_action
    last,        \* record of the operation that ran last (history)
    order,       \* the Order row: [exists, status, poli, require_approval]
    settings,    \* event.settings: the rendered mail subjects
    tasks,       \* reminder tasks waiting in the task queue
    now,         \* the clock, in hours
    outbox,      \* mails that left the host's mail pipeline
    requests     \* concurrent return requests: position and in-memory payment

\* what the payment provider's own operations never touch
hostVars == <<order, settings, tasks, now, outbox, requests>>

vars == <<payment, session, orderLog, last, order, settings, tasks, now, outbox, requests>>

----------------------------------------------------------------------------
(* Bounds *)

\* at most this many entries are kept in the order log
MaxLog == 1

----------------------------------------------------------------------------
(* Python values *)

\* Python's None
None == "<None>"

\* an empty dict
EmptyDict == [k \in {} |-> None]

\* dict.get(key): the value, or None when the key is absent
Get(d, k) == IF k \in DOMAIN d THEN d[k] ELSE None

\* dict.get(key, default)
GetDefault(d, k, dflt) == IF k \in DOMAIN d THEN d[k] ELSE dflt

\* d[key] = value
Put(d, k, v) == [x \in (DOMAIN d) \cup {k} |-> IF x = k THEN v ELSE d[x]]

\* truth value of a str-or-None (None and '' are falsy)
Truthy(v) == v \notin {None, ""}

\* a dict-or-None value: the dict d, or None
SomeDict(d) == [some |-> TRUE, value |-> d]
NoneDict == [some |-> FALSE, value |-> EmptyDict]

\* truth value of a dict-or-None (None and {} are falsy)
TruthyDict(o) == o.some /\ DOMAIN o.value # {}

\* json.dumps of a dict: the text of a JSON object with these members
JsonDumps(d) == [kind |-> "object", members |-> d]

\* the empty info text a payment starts with
EmptyInfo == [kind |-> "empty", members |-> EmptyDict]

----------------------------------------------------------------------------
(* Host framework: payment states *)

PAYMENT_STATE_CREATED == "created"
PAYMENT_STATE_PENDING == "pending"
PAYMENT_STATE_CONFIRMED == "confirmed"
PAYMENT_STATE_FAILED == "failed"
PAYMENT_STATE_CANCELED == "canceled"
PAYMENT_STATE_REFUNDED == "refunded"

PaymentStates ==
    { PAYMENT_STATE_CREATED, PAYMENT_STATE_PENDING, PAYMENT_STATE_CONFIRMED,
      PAYMENT_STATE_FAILED, PAYMENT_STATE_CANCELED, PAYMENT_STATE_REFUNDED }

\* OrderPayment.confirm(), when it does not raise: the payment is confirmed
Confirm(p) == [p EXCEPT !.state = PAYMENT_STATE_CONFIRMED]

\* OrderPayment.fail(info=...): the payment is marked failed, info stored
Fail(p, info) == [state |-> PAYMENT_STATE_FAILED, info |-> JsonDumps(info)]

----------------------------------------------------------------------------
(* Gateway: the bodies GetTransaction can answer with *)

\* TransactionStatusCode values: the four the plugin knows, one it does not
\* know, and the empty string
StatusCodes ==
    { "Completed", "Failed", "Timeout", "ReceiptNotReceived", "Initiated", "" }

\* gateway-issued transaction references (tokens)
RefNos == { "T1" }

\* a transaction record carrying a status code
Txn(s, t) ==
    [TransactionStatusCode |-> s, TransactionRefNo |-> t, BankReceipt |-> "R-" \o t]

\* a transaction record without the TransactionStatusCode key
TxnNoStatus(t) == [TransactionRefNo |-> t, BankReceipt |-> "R-" \o t]

TransactionData ==
    { Txn(s, t) : s \in StatusCodes, t \in RefNos } \cup { TxnNoStatus(t) : t \in RefNos }

----------------------------------------------------------------------------
(* Poli.process_transaction_result *)

\* what one call does: the payment afterwards, the value returned, and the
\* writes and host calls it made, in order
Outcome(p, result, effects) == [payment |-> p, result |-> result, effects |-> effects]

\* a repeated Completed is taken for a duplicate and the payment is failed
ProcessCompletedRejectsRepeat(p, confirmRaises) ==
    IF p.state # PAYMENT_STATE_CONFIRMED
    THEN IF confirmRaises
         THEN Outcome(p, FALSE, <<"save_info", "confirm", "confirm_raised">>)
         ELSE Outcome(Confirm(p), TRUE, <<"save_info", "confirm">>)
    ELSE Outcome([p EXCEPT !.state = PAYMENT_STATE_FAILED], TRUE, <<"save_info">>)

\* True is returned without confirming
ProcessCompletedNoConfirm(p, confirmRaises) ==
    Outcome(p, TRUE, <<"save_info">>)

\* the Completed branch; confirmRaises: the host's confirm() raises, and the
\* payment is not confirmed ("confirm_raised": the except clause ran)
ProcessCompleted(p, confirmRaises) ==
    IF p.state # PAYMENT_STATE_CONFIRMED
    THEN IF confirmRaises
         THEN Outcome(p, FALSE, <<"save_info", "confirm", "confirm_raised">>)
         ELSE Outcome(Confirm(p), TRUE, <<"save_info", "confirm">>)
    ELSE Outcome(p, TRUE, <<"save_info">>)

\* only an already failed payment is left alone
ProcessFailedIgnoresCanceled(p, transaction_data) ==
    IF p.state # PAYMENT_STATE_FAILED
    THEN Outcome(Fail(p, transaction_data), FALSE, <<"save_info", "fail">>)
    ELSE Outcome(p, FALSE, <<"save_info">>)

\* the Failed and the Timeout branch
ProcessFailed(p, transaction_data) ==
    IF p.state \notin {PAYMENT_STATE_FAILED, PAYMENT_STATE_CANCELED}
    THEN Outcome(Fail(p, transaction_data), FALSE, <<"save_info", "fail">>)
    ELSE Outcome(p, FALSE, <<"save_info">>)

\* a confirmed payment is not put back to pending
ProcessReceiptKeepsConfirmed(p) ==
    IF p.state = PAYMENT_STATE_CONFIRMED
    THEN Outcome(p, FALSE, <<"save_info">>)
    ELSE Outcome([p EXCEPT !.state = PAYMENT_STATE_PENDING], FALSE,
                 <<"save_info", "save_state">>)

\* the ReceiptNotReceived branch
ProcessReceiptNotReceived(p) ==
    Outcome([p EXCEPT !.state = PAYMENT_STATE_PENDING], FALSE,
            <<"save_info", "save_state">>)

\* an unknown status fails the payment
ProcessUnknownFails(p) ==
    IF p.state \notin {PAYMENT_STATE_FAILED, PAYMENT_STATE_CANCELED}
    THEN Outcome([p EXCEPT !.state = PAYMENT_STATE_FAILED], FALSE, <<"save_info", "fail">>)
    ELSE Outcome(p, FALSE, <<"save_info">>)

\* the branch for every other status
ProcessUnknown(p) == Outcome(p, FALSE, <<"save_info">>)

\* payment.info = json.dumps(transaction_data); payment.save(['info'])
SaveInfo(p, transaction_data) == [p EXCEPT !.info = JsonDumps(transaction_data)]

process_transaction_result(p, transaction_data, confirmRaises) ==
    LET transaction_status == Get(transaction_data, "TransactionStatusCode")
        p1 == SaveInfo(p, transaction_data)
    IN  IF ~Truthy(transaction_status)
        THEN Outcome(p, FALSE, <<>>)
        ELSE CASE transaction_status = "Completed" ->
                      ProcessCompleted(p1, confirmRaises)
               [] transaction_status = "Failed" ->
                      ProcessFailed(p1, transaction_data)
               [] transaction_status = "Timeout" ->
                      ProcessFailed(p1, transaction_data)
               [] transaction_status = "ReceiptNotReceived" ->
                      ProcessReceiptNotReceived(p1)
               [] OTHER -> ProcessUnknown(p1)

----------------------------------------------------------------------------
(* Gateway: outcomes of one HTTP request *)

\* a request that got a 2xx answer with this JSON body
Ok(body) == [net |-> "ok", body |-> body]

\* requests.RequestException: no answer ("timeout"), or a non-2xx answer that
\* response.raise_for_status() turns into an exception ("http_error")
NetFailures == { [net |-> n, body |-> EmptyDict] : n \in {"timeout", "http_error"} }

\* str(e) of the exception
ErrorText(reply) ==
    IF reply.net = "timeout" THEN "ConnectTimeout" ELSE "500 Server Error"

\* what GetTransaction can answer for this token
StatusReplies(token) ==
    NetFailures \cup { Ok(d) : d \in { x \in TransactionData : x.TransactionRefNo = token } }

\* the NavigateURL the gateway issues with a transaction reference
NavigateURL(t) == "https://pay/" \o t

\* what Initiate can answer
InitiateBodies ==
    { [Success |-> TRUE, TransactionRefNo |-> t, NavigateURL |-> NavigateURL(t)] : t \in RefNos }
    \cup { [Success |-> FALSE, ErrorCode |-> "E1", ErrorMessage |-> "bad merchant"],
           [Success |-> FALSE] }

InitiateReplies == NetFailures \cup { Ok(b) : b \in InitiateBodies }

\* data.get('Success') as a condition
Success(data) == IF "Success" \in DOMAIN data THEN data["Success"] ELSE FALSE

----------------------------------------------------------------------------
(* Poli.is_allowed *)

SUPPORTED_CURRENCIES == { "NZD", "AUD" }

\* event currencies tried
Currencies == { "NZD", "AUD", "USD", "nzd" }

\* the currency is not looked at when the base check allows
is_allowed_any_currency(currency, base) == base \/ currency \in SUPPORTED_CURRENCIES

\* base: what BasePaymentProvider.is_allowed answers
is_allowed(currency, base) == base /\ currency \in SUPPORTED_CURRENCIES

----------------------------------------------------------------------------
(* Poli.get_transaction_status *)

\* the JSON body, or None when the request raised
get_transaction_status(reply) ==
    IF reply.net = "ok" THEN SomeDict(reply.body) ELSE NoneDict

----------------------------------------------------------------------------
(* Poli.execute_payment *)

PaymentException == "PaymentException"

\* what an operation does: payment, session and order log afterwards, the
\* value returned, the exception raised, effects in order, HTTP requests made
Done(p, sess, log, result, raised, effects, http) ==
    [ payment |-> p, session |-> sess, log |-> log, result |-> result,
      raised |-> raised, effects |-> effects, http |-> http ]

\* the part after the status query that returns whatever the reconciliation said
ExecuteVerifiedNeverRaises(p, sess, log, transaction_data, confirmRaises) ==
    LET p1 == SaveInfo(p, transaction_data)
        r == process_transaction_result(p1, transaction_data, confirmRaises)
    IN  Done(r.payment, sess, log, None, None, <<"save_info">> \o r.effects, 1)

\* the part after the status query
ExecuteVerified(p, sess, log, transaction_data, confirmRaises) ==
    LET p1 == SaveInfo(p, transaction_data)
        r == process_transaction_result(p1, transaction_data, confirmRaises)
    IN  IF ~r.result
        THEN Done(r.payment, sess, log, None, PaymentException,
                  <<"save_info">> \o r.effects, 1)
        ELSE Done(r.payment, sess, log, None, None, <<"save_info">> \o r.effects, 1)

execute_payment(p, sess, log, reply, confirmRaises) ==
    LET token == Get(sess, "payment_poli_token")
        transaction_data == get_transaction_status(reply)
    IN  IF ~Truthy(token)
        THEN Done(p, sess, log, None, PaymentException, <<>>, 0)
        ELSE IF ~TruthyDict(transaction_data)
        THEN Done(p, sess, log, None, PaymentException, <<>>, 1)
        ELSE ExecuteVerified(p, sess, log, transaction_data.value, confirmRaises)

----------------------------------------------------------------------------
(* Poli.payment_prepare *)

\* payment.pk and payment.local_id of the one payment
PaymentPk == 1

\* the order log entry of a failed initiate
FailedEntry(error) ==
    [ type |-> "pretix.event.order.payment.failed", local_id |-> PaymentPk,
      provider |-> "poli", error |-> error ]

\* the separator of the logger line instead of the log entry's
ErrorFieldDash(data) ==
    GetDefault(data, "ErrorCode", "Unknown") \o " - "
        \o GetDefault(data, "ErrorMessage", "Unknown error")

\* f'{error_code}: {error_message}'
ErrorField(data) ==
    GetDefault(data, "ErrorCode", "Unknown") \o ": "
        \o GetDefault(data, "ErrorMessage", "Unknown error")

\* the session keeps the token it had
PrepareInitiatedKeepsToken(p, sess, log, data) ==
    LET sess2 == Put(sess, "payment_poli_payment_id", PaymentPk)
        info == JsonDumps([ transaction_ref_no |-> Get(data, "TransactionRefNo"),
                            navigate_url |-> Get(data, "NavigateURL") ])
    IN  Done([p EXCEPT !.info = info], sess2, log, Get(data, "NavigateURL"), None,
             <<"save_info">>, 1)

\* Success: the reference goes to the session and to payment.info
PrepareInitiated(p, sess, log, data) ==
    LET sess1 == Put(sess, "payment_poli_token", Get(data, "TransactionRefNo"))
        sess2 == Put(sess1, "payment_poli_payment_id", PaymentPk)
        info == JsonDumps([ transaction_ref_no |-> Get(data, "TransactionRefNo"),
                            navigate_url |-> Get(data, "NavigateURL") ])
    IN  Done([p EXCEPT !.info = info], sess2, log, Get(data, "NavigateURL"), None,
             <<"save_info">>, 1)

\* not Success: a log entry and a PaymentException
PrepareRejected(p, sess, log, data) ==
    Done(p, sess, Append(log, FailedEntry(ErrorField(data))), None, PaymentException,
         <<"log_action">>, 1)

\* requests.RequestException: a log entry and a PaymentException
PrepareUnreachable(p, sess, log, reply) ==
    Done(p, sess, Append(log, FailedEntry(ErrorText(reply))), None, PaymentException,
         <<"log_action">>, 1)

payment_prepare(p, sess, log, reply) ==
    IF reply.net = "ok"
    THEN IF Success(reply.body)
         THEN PrepareInitiated(p, sess, log, reply.body)
         ELSE PrepareRejected(p, sess, log, reply.body)
    ELSE PrepareUnreachable(p, sess, log, reply)

----------------------------------------------------------------------------
(* Poli.checkout_prepare *)

\* f"TEMP-{uuid.uuid4().hex[:12].upper()}"
TempRefs == { "TEMP-0A1B2C3D4E5F" }

\* Success: token, navigate URL and temporary reference go to the session
CheckoutInitiated(p, sess, log, data, temp_ref) ==
    LET sess1 == Put(sess, "payment_poli_token", Get(data, "TransactionRefNo"))
        sess2 == Put(sess1, "payment_poli_navigate_url", Get(data, "NavigateURL"))
        sess3 == Put(sess2, "payment_poli_temp_ref", temp_ref)
    IN  Done(p, sess3, log, Get(data, "NavigateURL"), None, <<>>, 1)

\* not Success, or requests.RequestException: logged, None returned
CheckoutFailed(p, sess, log) == Done(p, sess, log, None, None, <<>>, 1)

checkout_prepare(p, sess, log, reply, temp_ref) ==
    IF reply.net = "ok"
    THEN IF Success(reply.body)
         THEN CheckoutInitiated(p, sess, log, reply.body, temp_ref)
         ELSE CheckoutFailed(p, sess, log)
    ELSE CheckoutFailed(p, sess, log)

----------------------------------------------------------------------------
(* Orders and mails (signals.py, tasks.py) *)

STATUS_PENDING == "n"
STATUS_PAID == "p"
STATUS_EXPIRED == "e"
STATUS_CANCELED == "c"

OrderStatuses == { STATUS_PENDING, STATUS_PAID, STATUS_EXPIRED, STATUS_CANCELED }

\* order.code and order.event.pk of the one order followed
OrderCode == "ORD1"
EventPk == 1

\* str.lower()
UpperCase == "ABCDEFGHIJKLMNOPQRSTUVWXYZ"
LowerCase == "abcdefghijklmnopqrstuvwxyz"

LowerChar(c) ==
    IF \E i \in 1..Len(UpperCase) : SubSeq(UpperCase, i, i) = c
    THEN LET i == CHOOSE j \in 1..Len(UpperCase) : SubSeq(UpperCase, j, j) = c
         IN  SubSeq(LowerCase, i, i)
    ELSE c

RECURSIVE Lower(_)
Lower(s) ==
    IF Len(s) = 0 THEN ""
    ELSE LowerChar(SubSeq(s, 1, 1)) \o Lower(SubSeq(s, 2, Len(s)))

\* Python's `sub in s` on strings
Contains(sub, s) ==
    \E i \in 1..(Len(s) - Len(sub) + 1) : SubSeq(s, i, i + Len(sub) - 1) = sub

\* template.format(code=order.code)
Render(template, code) == template \o code

\* a mail message with a subject, and one without the attribute
Mail(subject) == [subject |-> subject]
MailNoSubject == [body |-> "text"]

\* the mail the host sends when a payment was received
PaymentReceivedMail == Mail("Payment received for your order: " \o OrderCode)

\* the filter that lets every message through
filter_keeps_all(message, o, p) == SomeDict(message)

\* filter_order_placed_email(sender, message, order): the message to send,
\* or None to drop it.  o is the order argument (None for a mail without an
\* order), p the order's payment.
filter_order_placed_email(message, o, p) ==
    IF ~o.some THEN SomeDict(message)
    ELSE IF o.value.poli
         THEN LET subject == IF "subject" \in DOMAIN message
                             THEN Lower(message.subject) ELSE ""
              IN  IF Contains("your order:", subject)
                       /\ ~Contains("payment received", subject)
                  THEN NoneDict
                  ELSE SomeDict(message)
         ELSE SomeDict(message)

\* the host's mail pipeline: the message passes the email_filter signal and
\* is sent unless a receiver dropped it
Pipeline(box, message, o, p) ==
    LET kept == filter_order_placed_email(message, o, p)
    IN  IF kept.some
        THEN [outbox |-> box \cup {kept.value}, effects |-> <<"delivered">>]
        ELSE [outbox |-> box, effects |-> <<"dropped">>]

\* what the task or the signal handler did
Ran(ord, p, box, queue, effects, raised) ==
    [order |-> ord, payment |-> p, outbox |-> box, tasks |-> queue,
     effects |-> effects, raised |-> raised]

\* the subject of the order-placed mail of an order
OrderPlacedSubject(ord, sett) ==
    IF ord.require_approval
    THEN Render(sett.mail_subject_order_placed_require_approval, OrderCode)
    ELSE Render(sett.mail_subject_order_placed, OrderCode)

\* order.send_mail(...): the mail goes through the pipeline, or
\* SendMailException is raised
SendMail(ord, p, sett, box, queue, sendRaises) ==
    IF sendRaises
    THEN Ran(ord, p, box, queue, <<"send_mail", "SendMailException">>, None)
    ELSE LET sent == Pipeline(box, Mail(OrderPlacedSubject(ord, sett)), SomeDict(ord), p)
         IN  Ran(ord, p, sent.outbox, queue, <<"send_mail">> \o sent.effects, None)

\* the reminder task that mails whatever the order's status is
reminder_ignores_status(ord, p, sett, box, queue, sendRaises) ==
    IF ~ord.exists THEN Ran(ord, p, box, queue, <<>>, None)
    ELSE SendMail(ord, p, sett, box, queue, sendRaises)

\* send_pending_payment_reminder(self, order_code, event_id), the task
\* taken from the queue
send_pending_payment_reminder(ord, p, sett, box, queue, sendRaises) ==
    IF ~ord.exists THEN Ran(ord, p, box, queue, <<>>, None)
    ELSE IF ord.status = STATUS_PAID THEN Ran(ord, p, box, queue, <<>>, None)
    ELSE IF ord.poli /\ p.state = PAYMENT_STATE_CONFIRMED THEN Ran(ord, p, box, queue, <<>>, None)
    ELSE IF ord.status \in {STATUS_EXPIRED, STATUS_CANCELED} THEN Ran(ord, p, box, queue, <<>>, None)
    ELSE SendMail(ord, p, sett, box, queue, sendRaises)

\* hours between the placement of the order and the reminder
REMINDER_HOURS == 2

\* the handler that enqueues the task twice
schedule_twice(ord, p, box, queue, clock, enqueueRaises) ==
    LET task == [order_code |-> OrderCode, event_id |-> EventPk,
                 eta |-> clock + REMINDER_HOURS]
    IN  Ran(ord, p, box, queue \o <<task, task>>, <<"apply_async">>, None)

\* schedule_payment_reminder(sender, order): the order_placed receiver
schedule_payment_reminder(ord, p, box, queue, clock, enqueueRaises) ==
    IF ~ord.poli THEN Ran(ord, p, box, queue, <<>>, None)
    ELSE IF enqueueRaises
         THEN Ran(ord, p, box, queue, <<"apply_async", "logged">>, None)
         ELSE Ran(ord, p, box,
                  Append(queue, [order_code |-> OrderCode, event_id |-> EventPk,
                                 eta |-> clock + REMINDER_HOURS]),
                  <<"apply_async">>, None)

----------------------------------------------------------------------------
(* Data redaction (payment.py, shred_payment_info) *)

\* the keys shred_payment_info keeps
ShredKeys ==
    { "TransactionRefNo", "TransactionID", "TransactionStatusCode",
      "TransactionStatus", "PaymentAmount", "CurrencyCode",
      "EstablishedDateTime", "EndDateTime" }

\* stored info that is not a JSON object: text that is not JSON, and JSON
\* text of a list, a string, a number, null
NotJson == "invalid"
NonObjectKinds == { "list", "string", "number", "null" }

InfoText(kind) == [kind |-> kind, members |-> EmptyDict]

\* a full gateway record, with the payer's bank details
FullRecord ==
    [ TransactionRefNo |-> "T1", TransactionID |-> "ID-1",
      TransactionStatusCode |-> "Completed", PaymentAmount |-> "10.00",
      CurrencyCode |-> "NZD", PayerAcctSortCode |-> "12-3456",
      PayerAcctNumber |-> "0012345", PayerFirstName |-> "Kim" ]

\* the dict shred_payment_info builds from the parsed info
ShreddedData(data) ==
    [ k \in ShredKeys \cup {"_shredded"} |->
        IF k = "_shredded" THEN TRUE ELSE Get(data, k) ]

\* the redaction that copies the whole record and marks it
shred_marks_only(p) ==
    IF p.info.kind = "object"
    THEN [ payment |-> [p EXCEPT !.info =
                           JsonDumps([ k \in DOMAIN p.info.members \cup {"_shredded"} |->
                                         IF k = "_shredded" THEN TRUE
                                         ELSE p.info.members[k] ])],
           raised |-> None, effects |-> <<"save_info">> ]
    ELSE [payment |-> p, raised |-> None, effects |-> <<>>]

\* shred_payment_info(self, obj)
shred_payment_info(p) ==
    IF p.info.kind = "empty"
    THEN [payment |-> p, raised |-> None, effects |-> <<>>]
    ELSE IF p.info.kind = NotJson
    THEN \* json.loads raises JSONDecodeError: caught and logged
         [payment |-> p, raised |-> None, effects |-> <<"logged">>]
    ELSE IF p.info.kind \in NonObjectKinds
    THEN \* data.get raises AttributeError, which the except clause does not name
         [payment |-> p, raised |-> "AttributeError", effects |-> <<>>]
    ELSE [ payment |-> [p EXCEPT !.info = JsonDumps(ShreddedData(p.info.members))],
           raised |-> None, effects |-> <<"save_info">> ]

----------------------------------------------------------------------------
(* HTTP endpoints (views.py) *)

\* order.secret of the one order, and a hash that is not the secret
OrderSecret == "k9Zq"
WrongHash == "0000"

\* a payment id in the path that is not this payment's
OtherPk == 7

\* path arguments and the token parameter a request can carry
OrderCodes == { OrderCode, "NOPE" }
PaymentIds == { PaymentPk, OtherPk }
Hashes == { OrderSecret, WrongHash }
Tokens == { None, "" } \cup RefNos

\* OrderPayment.cancel(): the payment is canceled
Cancel(p) == [p EXCEPT !.state = PAYMENT_STATE_CANCELED]

\* the redirect targets and the plain answers
RedirectOrder == "302 order"
RedirectIndex == "302 index"
BadRequest == "400 Token is required"
HttpOK == "200 OK"

\* Order.objects.get(code=order_code, event=request.event) finds the order
OrderFound(ord, order_code) == ord.exists /\ order_code = OrderCode

\* the cancel endpoint that skips the comparison with order.secret
cancel_without_secret(ord, p, sess, log, order_code, payment_id, hash) ==
    IF ~OrderFound(ord, order_code) \/ payment_id # PaymentPk
    THEN Done(p, sess, log, RedirectIndex, None, <<>>, 0)
    ELSE IF p.state = PAYMENT_STATE_CREATED
         THEN Done(Cancel(p), sess, log, RedirectOrder, None, <<"cancel">>, 0)
         ELSE Done(p, sess, log, RedirectOrder, None, <<>>, 0)

\* PoliCancelView.get(request, order, payment, hash)
PoliCancelView_get(ord, p, sess, log, order_code, payment_id, hash) ==
    IF ~OrderFound(ord, order_code)
    THEN Done(p, sess, log, RedirectIndex, None, <<>>, 0)          \* Order.DoesNotExist
    ELSE IF OrderSecret # hash
    THEN Done(p, sess, log, RedirectIndex, None, <<>>, 0)          \* PermissionDenied
    ELSE IF payment_id # PaymentPk
    THEN Done(p, sess, log, RedirectIndex, None, <<>>, 0)          \* OrderPayment.DoesNotExist
    ELSE IF p.state = PAYMENT_STATE_CREATED
         THEN Done(Cancel(p), sess, log, RedirectOrder, None, <<"cancel">>, 0)
         ELSE Done(p, sess, log, RedirectOrder, None, <<>>, 0)

\* the part of the return endpoint after the order and the payment are found
ReturnVerified(p, sess, log, reply, confirmRaises) ==
    LET transaction_data == get_transaction_status(reply)
    IN  IF ~TruthyDict(transaction_data)
        THEN Done(p, sess, log, RedirectOrder, None, <<"get_transaction_status">>, 1)
        ELSE LET r == process_transaction_result(p, transaction_data.value, confirmRaises)
             IN  Done(r.payment, sess, log, RedirectOrder, None,
                      <<"get_transaction_status", "process_transaction_result">>
                          \o r.effects, 1)

\* the return endpoint that queries the gateway before it compares the hash
return_query_first(ord, p, sess, log, token, order_code, payment_id, hash, reply, confirmRaises) ==
    IF ~Truthy(token)
    THEN Done(p, sess, log, RedirectOrder, None, <<>>, 0)
    ELSE ReturnVerified(p, sess, log, reply, confirmRaises)

\* PoliReturnView.get(request, order, payment, hash)
PoliReturnView_get(ord, p, sess, log, token, order_code, payment_id, hash, reply, confirmRaises) ==
    IF ~Truthy(token)
    THEN Done(p, sess, log, RedirectOrder, None, <<>>, 0)
    ELSE IF ~OrderFound(ord, order_code)
    THEN Done(p, sess, log, RedirectIndex, None, <<>>, 0)          \* Order.DoesNotExist
    ELSE IF OrderSecret # hash
    THEN Done(p, sess, log, RedirectIndex, None, <<>>, 0)          \* PermissionDenied
    ELSE IF payment_id # PaymentPk
    THEN Done(p, sess, log, RedirectIndex, None, <<>>, 0)          \* OrderPayment.DoesNotExist
    ELSE ReturnVerified(p, sess, log, reply, confirmRaises)

\* the webhook that answers 200 whatever it is sent
webhook_always_ok(p, sess, log, token) ==
    Done(p, sess, log, HttpOK, None, <<>>, 0)

\* PoliWebhookView.post(request)
PoliWebhookView_post(p, sess, log, token) ==
    IF ~Truthy(token)
    THEN Done(p, sess, log, BadRequest, None, <<>>, 0)
    ELSE Done(p, sess, log, HttpOK, None, <<>>, 0)

----------------------------------------------------------------------------
(* History record of the operation that ran last *)

\* a reconciliation call that does not follow another one
NoPrev == [sameStatus |-> FALSE, sameData |-> FALSE, result |-> FALSE]

\* r: what the operation did (a Done record), applied to the current state
Record(op, data, r, prev) ==
    [ op |-> op,                     \* the operation
      data |-> data,                 \* its input (a gateway body, a reply, ...)
      preState |-> payment.state,    \* the payment state before it
      infoChanged |-> r.payment.info # payment.info,
      sessionChanged |-> r.session # session,
      result |-> r.result,           \* the value returned
      raised |-> r.raised,           \* the exception raised to the caller, or None
      effects |-> r.effects,         \* writes and host calls, in order
      http |-> r.http,               \* HTTP requests made
      logged |-> SubSeq(r.log, Len(orderLog) + 1, Len(r.log)),  \* log entries written
      prev |-> prev ]                \* relation to the call before (reconciliation)

----------------------------------------------------------------------------
(* State machine *)

\* an empty session, an empty order log, nothing done yet
InitSession ==
    /\ session = EmptyDict
    /\ orderLog = <<>>
    /\ last = [ op |-> "init", data |-> None, preState |-> PAYMENT_STATE_CREATED,
                infoChanged |-> FALSE, sessionChanged |-> FALSE, result |-> None,
                raised |-> None, effects |-> <<>>, http |-> 0, logged |-> <<>>,
                prev |-> NoPrev ]

\* a new payment
InitPayment ==
    /\ payment = [state |-> PAYMENT_STATE_CREATED, info |-> EmptyInfo]
    /\ InitSession

\* a pending order paid with POLi, the order-placed subject of the filter's
\* comment, nothing queued, nothing mailed
InitOrder ==
    /\ order = [exists |-> TRUE, status |-> STATUS_PENDING, poli |-> TRUE,
                require_approval |-> FALSE, placed |-> FALSE]
    /\ settings = [mail_subject_order_placed |-> "Your order: ",
                   mail_subject_order_placed_require_approval |-> "Your order: "]
    /\ tasks = <<>>
    /\ now = 0
    /\ outbox = {}

\* that order, and no concurrent request in flight
InitHost ==
    /\ InitOrder
    /\ requests = <<>>

Init == InitPayment /\ InitHost

\* what an operation did to the payment, the session and the order log
Effect(op, data, r, prev) ==
    /\ payment' = r.payment
    /\ session' = r.session
    /\ orderLog' = r.log
    /\ last' = Record(op, data, r, prev)

\* apply what an operation of the payment provider did
Apply(op, data, r, prev) ==
    /\ Effect(op, data, r, prev)
    /\ UNCHANGED hostVars

\* how this reconciliation call relates to the operation before it
PrevOf(transaction_data) ==
    IF last.op = "process_transaction_result"
    THEN [ sameStatus |-> Get(last.data, "TransactionStatusCode")
                            = Get(transaction_data, "TransactionStatusCode"),
           sameData |-> last.data = transaction_data,
           result |-> last.result ]
    ELSE NoPrev

\* a caller invokes process_transaction_result(payment, transaction_data)
ProcessTransactionResult(transaction_data, confirmRaises) ==
    LET r == process_transaction_result(payment, transaction_data, confirmRaises)
    IN  /\ transaction_data \in TransactionData
        /\ Apply("process_transaction_result", transaction_data,
                 Done(r.payment, session, orderLog, r.result, None, r.effects, 0),
                 PrevOf(transaction_data))

\* the host's checkout calls execute_payment(request, payment); the gateway
\* answers for the token it is asked about
ExecutePayment(reply, confirmRaises) ==
    /\ reply.net = "ok" =>
          Get(session, "payment_poli_token") \in {None, reply.body.TransactionRefNo}
    /\ Apply("execute_payment", reply,
             execute_payment(payment, session, orderLog, reply, confirmRaises), NoPrev)

\* the buyer pays an existing order: payment_prepare(request, payment)
PaymentPrepare(reply) ==
    /\ Len(orderLog) < MaxLog
    /\ Apply("payment_prepare", reply,
             payment_prepare(payment, session, orderLog, reply), NoPrev)

\* the buyer chooses POLi at checkout: checkout_prepare(request, total)
CheckoutPrepare(reply, temp_ref) ==
    /\ reply \in InitiateReplies
    /\ Apply("checkout_prepare", reply,
             checkout_prepare(payment, session, orderLog, reply, temp_ref), NoPrev)

\* the host asks whether POLi is offered: is_allowed(request, total)
IsAllowed(currency, base) ==
    /\ currency \in Currencies
    /\ Apply("is_allowed", [currency |-> currency, base |-> base],
             Done(payment, session, orderLog, is_allowed(currency, base), None, <<>>, 0),
             NoPrev)

\* the host framework moves the payment to another state (an organiser
\* cancels or refunds it, a new attempt starts, ...)
HostTransition(s) ==
    /\ s # payment.state
    /\ Apply("host", None,
             Done([payment EXCEPT !.state = s], session, orderLog, None, None, <<>>, 0),
             NoPrev)

Next ==
    \/ \E d \in TransactionData, cr \in BOOLEAN : ProcessTransactionResult(d, cr)
    \/ \E reply \in UNION { StatusReplies(t) : t \in RefNos }, cr \in BOOLEAN :
          ExecutePayment(reply, cr)
    \/ \E reply \in InitiateReplies : PaymentPrepare(reply)
    \/ \E reply \in InitiateReplies, temp_ref \in TempRefs : CheckoutPrepare(reply, temp_ref)
    \/ \E c \in Currencies, base \in BOOLEAN : IsAllowed(c, base)
    \/ \E s \in PaymentStates : HostTransition(s)

Spec == Init /\ [][Next]_vars

----------------------------------------------------------------------------
(* The order-placed mail and its reminder *)

\* the clock runs up to this hour
MaxClock == 2

\* the configurations of the two order-placed subjects: the default, and an
\* organiser's own wording for orders that need no approval
SubjectSettings ==
    { [mail_subject_order_placed |-> "Your order: ",
       mail_subject_order_placed_require_approval |-> "Your order: "],
      [mail_subject_order_placed |-> "Registration ",
       mail_subject_order_placed_require_approval |-> "Your Order: "] }

\* an order placed with or without a POLi payment, with or without approval,
\* under each configuration of the subjects
InitReminder ==
    /\ InitPayment
    /\ order \in [exists : {TRUE}, status : {STATUS_PENDING}, poli : BOOLEAN,
                  require_approval : BOOLEAN, placed : {FALSE}]
    /\ settings \in SubjectSettings
    /\ tasks = <<>>
    /\ now = 0
    /\ outbox = {}
    /\ requests = <<>>

\* what a host-side operation reports: the payment, the session and the log
\* as they are now
Host(p, r) == Done(p, session, orderLog, None, r.raised, r.effects, 0)

\* the host places the order and sends order_placed
OrderPlaced(enqueueRaises) ==
    LET r == schedule_payment_reminder(order, payment, outbox, tasks, now, enqueueRaises)
    IN  /\ order.exists
        /\ ~order.placed
        /\ order' = [r.order EXCEPT !.placed = TRUE]
        /\ tasks' = r.tasks
        /\ outbox' = r.outbox
        /\ Effect("schedule_payment_reminder",
                  [enqueueRaises |-> enqueueRaises, clock |-> now,
                   before |-> tasks, pending |-> r.tasks],
                  Host(r.payment, r), NoPrev)
        /\ UNCHANGED <<settings, now, requests>>

\* the mails the host sends: three about the order, one about no order
MailKinds == { "order_placed", "payment_received", "no_subject", "no_order" }

HostMail(kind) ==
    CASE kind = "order_placed" -> Mail(OrderPlacedSubject(order, settings))
      [] kind = "payment_received" -> PaymentReceivedMail
      [] kind = "no_subject" -> MailNoSubject
      [] kind = "no_order" -> Mail("Your order: none")

\* the host sends a mail through its pipeline
HostSendsMail(kind) ==
    LET message == HostMail(kind)
        sent == Pipeline(outbox, message,
                         IF kind = "no_order" THEN NoneDict ELSE SomeDict(order),
                         payment)
    IN  /\ kind \in MailKinds
        /\ kind # "no_order" => order.exists /\ order.placed
        /\ outbox' = sent.outbox
        /\ Effect("mail", [kind |-> kind, message |-> message],
                  Host(payment, [raised |-> None, effects |-> sent.effects]), NoPrev)
        /\ UNCHANGED <<order, settings, tasks, now, requests>>

\* an hour passes
Tick ==
    /\ now < MaxClock
    /\ now' = now + 1
    /\ UNCHANGED <<payment, session, orderLog, last, order, settings, tasks,
                   outbox, requests>>

\* the worker runs the reminder task whose time has come
ReminderFires(sendRaises) ==
    LET r == send_pending_payment_reminder(order, payment, settings, outbox,
                                           Tail(tasks), sendRaises)
    IN  /\ tasks # <<>>
        /\ now >= Head(tasks).eta
        /\ order' = r.order
        /\ tasks' = r.tasks
        /\ outbox' = r.outbox
        /\ Effect("send_pending_payment_reminder",
                  [sendRaises |-> sendRaises, order |-> order, outbox |-> outbox,
                   subject |-> OrderPlacedSubject(order, settings)],
                  Host(r.payment, r), NoPrev)
        /\ UNCHANGED <<settings, now, requests>>

\* the host changes the status of the order (it is paid, expires, is canceled)
HostOrderStatus(st) ==
    /\ order.exists
    /\ st # order.status
    /\ order' = [order EXCEPT !.status = st]
    /\ Effect("host_order", None, Host(payment, [raised |-> None, effects |-> <<>>]),
              NoPrev)
    /\ UNCHANGED <<settings, tasks, now, outbox, requests>>

\* the order is deleted
HostDeletesOrder ==
    /\ order.exists
    /\ order' = [order EXCEPT !.exists = FALSE]
    /\ Effect("host_order", None, Host(payment, [raised |-> None, effects |-> <<>>]),
              NoPrev)
    /\ UNCHANGED <<settings, tasks, now, outbox, requests>>

NextReminder ==
    \/ \E enqueueRaises \in BOOLEAN : OrderPlaced(enqueueRaises)
    \/ \E kind \in MailKinds : HostSendsMail(kind)
    \/ Tick
    \/ \E sendRaises \in BOOLEAN : ReminderFires(sendRaises)
    \/ \E st \in OrderStatuses : HostOrderStatus(st)
    \/ HostDeletesOrder
    \/ HostTransition(PAYMENT_STATE_CONFIRMED)

SpecReminder == InitReminder /\ [][NextReminder]_vars

----------------------------------------------------------------------------
(* Redaction among the provider's operations *)

\* the info values a payment can hold when redaction starts
StoredInfos ==
    { EmptyInfo, JsonDumps(EmptyDict), JsonDumps(FullRecord), InfoText(NotJson) }
        \cup { InfoText(kind) : kind \in NonObjectKinds }

InitShred ==
    /\ payment \in [state : {PAYMENT_STATE_CREATED}, info : StoredInfos]
    /\ InitSession
    /\ InitHost

\* the host's data shredder calls shred_payment_info(payment)
ShredPaymentInfo ==
    LET r == shred_payment_info(payment)
    IN  /\ payment.state \in PaymentStates
        /\ Apply("shred_payment_info", payment.info,
                 Done(r.payment, session, orderLog, None, r.raised, r.effects, 0), NoPrev)

NextShred ==
    \/ ShredPaymentInfo
    \/ \E d \in TransactionData, cr \in BOOLEAN : ProcessTransactionResult(d, cr)
    \/ \E reply \in UNION { StatusReplies(t) : t \in RefNos }, cr \in BOOLEAN :
          ExecutePayment(reply, cr)
    \/ \E reply \in InitiateReplies : PaymentPrepare(reply)

SpecShred == InitShred /\ [][NextShred]_vars

----------------------------------------------------------------------------
(* The endpoints among the host's changes *)

\* the transaction reference payment_prepare recorded in the info
RecordedRef(info) == Get(info.members, "transaction_ref_no")

\* what a request to the return or the cancel endpoint carried, whether the
\* order existed and the reference recorded for the payment
PathArgs(token, order_code, payment_id, hash) ==
    [ token |-> token, order_code |-> order_code, payment_id |-> payment_id,
      hash |-> hash, exists |-> order.exists, recorded |-> RecordedRef(payment.info) ]

\* GET return/<order>/<payment>/<hash>/?token=...; the gateway answers for
\* the token it is asked about, and its answer and the outcome of confirm
\* are drawn only when the gateway is asked
ReturnView(token, order_code, payment_id, hash, reply, confirmRaises) ==
    LET r == PoliReturnView_get(order, payment, session, orderLog, token, order_code,
                                payment_id, hash, reply, confirmRaises)
    IN  /\ reply \in StatusReplies(token)
        /\ r.http = 0 => reply.net = "timeout" /\ ~confirmRaises
        /\ Apply("return", PathArgs(token, order_code, payment_id, hash), r, NoPrev)

\* GET cancel/<order>/<payment>/<hash>/
CancelView(order_code, payment_id, hash) ==
    /\ order_code \in OrderCodes
    /\ Apply("cancel", PathArgs(None, order_code, payment_id, hash),
             PoliCancelView_get(order, payment, session, orderLog, order_code,
                                payment_id, hash),
             NoPrev)

\* POST webhook
Webhook(token) ==
    /\ token \in Tokens
    /\ Apply("webhook", [token |-> token, exists |-> order.exists],
             PoliWebhookView_post(payment, session, orderLog, token), NoPrev)

NextViews ==
    \/ \E token \in Tokens, order_code \in OrderCodes, payment_id \in PaymentIds,
          hash \in Hashes, cr \in BOOLEAN :
          \E reply \in UNION { StatusReplies(t) : t \in RefNos } :
             ReturnView(token, order_code, payment_id, hash, reply, cr)
    \/ \E order_code \in OrderCodes, payment_id \in PaymentIds, hash \in Hashes :
          CancelView(order_code, payment_id, hash)
    \/ \E token \in Tokens : Webhook(token)
    \/ \E s \in PaymentStates : HostTransition(s)
    \/ HostDeletesOrder

SpecViews == Init /\ [][NextViews]_vars

----------------------------------------------------------------------------
(* Concurrent reconciliation: requests that each load the payment and run *)
(* process_transaction_result with Completed, one statement at a time     *)

\* how many requests run at once
MaxRequests == 2

RequestIds == 1..MaxRequests

\* the payload every one of them got from the gateway
CompletedData == Txn("Completed", "T1")

\* the test that never asks for confirm
never_needs_confirm(state) == FALSE

\* `if payment.state != OrderPayment.PAYMENT_STATE_CONFIRMED`, on the
\* request's own copy of the payment
NeedsConfirm(state) == state # PAYMENT_STATE_CONFIRMED

\* a payment that is not confirmed, and requests about to load it
InitRace ==
    /\ payment \in [state : PaymentStates \ {PAYMENT_STATE_CONFIRMED}, info : {EmptyInfo}]
    /\ InitSession
    /\ InitOrder
    /\ requests = [i \in RequestIds |-> [pc |-> "load", state |-> None, loaded |-> None]]

\* only the payment row and the requests move
RaceFrame == UNCHANGED <<session, orderLog, last, order, settings, tasks, now, outbox>>

\* payment = order.payments.get(pk=payment_id): the request's copy of the row
RaceLoad(i) ==
    /\ requests[i].pc = "load"
    /\ requests' = [requests EXCEPT ![i] = [pc |-> "save_info", state |-> payment.state,
                                            loaded |-> payment.state]]
    /\ UNCHANGED payment
    /\ RaceFrame

\* payment.info = json.dumps(transaction_data); payment.save(update_fields=['info'])
RaceSaveInfo(i) ==
    /\ requests[i].pc = "save_info"
    /\ payment' = [payment EXCEPT !.info = SaveInfo(payment, CompletedData).info]
    /\ requests' = [requests EXCEPT ![i].pc = "check"]
    /\ RaceFrame

\* the test on the copy: confirm, or return True at once
RaceCheck(i) ==
    /\ requests[i].pc = "check"
    /\ requests' = [requests EXCEPT ![i].pc =
                       IF NeedsConfirm(requests[i].state) THEN "confirm"
                       ELSE "returned_true"]
    /\ UNCHANGED payment
    /\ RaceFrame

\* payment.confirm(): the row and the copy are confirmed and True is
\* returned, or confirm raises, the exception is logged and False returned
RaceConfirm(i, confirmRaises) ==
    /\ requests[i].pc = "confirm"
    /\ IF confirmRaises
       THEN /\ requests' = [requests EXCEPT ![i].pc = "returned_false"]
            /\ UNCHANGED payment
       ELSE /\ payment' = Confirm(payment)
            /\ requests' = [requests EXCEPT ![i].pc = "returned_true",
                                           ![i].state = PAYMENT_STATE_CONFIRMED]
    /\ RaceFrame

NextRace ==
    \/ \E i \in RequestIds : RaceLoad(i)
    \/ \E i \in RequestIds : RaceSaveInfo(i)
    \/ \E i \in RequestIds : RaceCheck(i)
    \/ \E i \in RequestIds, confirmRaises \in BOOLEAN : RaceConfirm(i, confirmRaises)

SpecRace == InitRace /\ [][NextRace]_vars

----------------------------------------------------------------------------
(* The return endpoint and a transaction of another payment *)

\* the reference of a transaction the gateway holds for another payment
ForeignRef == "T2"

\* what GetTransaction answers for that transaction
ForeignReplies == { Ok(Txn(s, ForeignRef)) : s \in {"Completed", "Failed"} }

\* GET return/<order>/<payment>/<hash>/?token=<the other transaction>, with
\* the path of this payment
ReturnForeign(reply, confirmRaises) ==
    /\ reply \in ForeignReplies
    /\ Apply("return", PathArgs(ForeignRef, OrderCode, PaymentPk, OrderSecret),
             PoliReturnView_get(order, payment, session, orderLog, ForeignRef, OrderCode,
                                PaymentPk, OrderSecret, reply, confirmRaises),
             NoPrev)

NextToken ==
    \/ \E reply \in InitiateReplies : PaymentPrepare(reply)
    \/ \E token \in Tokens, order_code \in OrderCodes, payment_id \in PaymentIds,
          hash \in Hashes, cr \in BOOLEAN :
          \E reply \in UNION { StatusReplies(t) : t \in RefNos } :
             ReturnView(token, order_code, payment_id, hash, reply, cr)
    \/ \E reply \in ForeignReplies, cr \in BOOLEAN : ReturnForeign(reply, cr)

SpecToken == Init /\ [][NextToken]_vars

----------------------------------------------------------------------------
(* A cancel request concurrent with return requests, statement by statement *)

\* the cancel request, next to the return requests RequestIds
CancelId == 0

\* a created payment; the requests have passed the order lookup and the
\* comparison with order.secret and are about to load the payment
InitCancelRace ==
    /\ InitPayment
    /\ InitOrder
    /\ requests = [i \in RequestIds \cup {CancelId} |->
                      IF i = CancelId
                      THEN [pc |-> "load", state |-> None, loaded |-> None, row |-> None]
                      ELSE [pc |-> "load", state |-> None, loaded |-> None]]

\* payment = order.payments.get(pk=payment_id) in the cancel endpoint
CancelLoad ==
    /\ requests[CancelId].pc = "load"
    /\ requests' = [requests EXCEPT ![CancelId].pc = "check",
                                    ![CancelId].state = payment.state,
                                    ![CancelId].loaded = payment.state]
    /\ UNCHANGED payment
    /\ RaceFrame

\* `if payment.state == OrderPayment.PAYMENT_STATE_CREATED`, on the copy
CancelCheck ==
    /\ requests[CancelId].pc = "check"
    /\ requests' = [requests EXCEPT ![CancelId].pc =
                       IF requests[CancelId].state = PAYMENT_STATE_CREATED
                       THEN "cancel" ELSE "redirected"]
    /\ UNCHANGED payment
    /\ RaceFrame

\* payment.cancel(); row keeps the state the row had when cancel() ran
CancelAct ==
    /\ requests[CancelId].pc = "cancel"
    /\ payment' = Cancel(payment)
    /\ requests' = [requests EXCEPT ![CancelId].pc = "canceled",
                                    ![CancelId].state = PAYMENT_STATE_CANCELED,
                                    ![CancelId].row = payment.state]
    /\ RaceFrame

NextCancelRace ==
    \/ \E i \in RequestIds : RaceLoad(i)
    \/ \E i \in RequestIds : RaceSaveInfo(i)
    \/ \E i \in RequestIds : RaceCheck(i)
    \/ \E i \in RequestIds, confirmRaises \in BOOLEAN : RaceConfirm(i, confirmRaises)
    \/ CancelLoad
    \/ CancelCheck
    \/ CancelAct

SpecCancelRace == InitCancelRace /\ [][NextCancelRace]_vars

----------------------------------------------------------------------------
(* Properties *)

ProcessCalled == last.op = "process_transaction_result"

\* the TransactionStatusCode the last reconciliation call was given
LastStatus == Get(last.data, "TransactionStatusCode")

Invoked(e) == \E i \in 1..Len(last.effects) : last.effects[i] = e

TerminalStatuses == { "Completed", "Failed", "Timeout" }

\* C1 (as stated): a reconciliation call that repeats the terminal status of
\* the call before it leaves the payment state as that call left it.
C1_Idempotent ==
    (ProcessCalled /\ last.prev.sameStatus /\ LastStatus \in TerminalStatuses)
        => payment.state = last.preState

\* C1 (amended): the same, for Failed and Timeout always and for Completed
\* when the first call returned True; with the same payload the info is left
\* as it was too.
C1_IdempotentAfterSuccess ==
    ( /\ ProcessCalled
      /\ last.prev.sameStatus
      /\ LastStatus \in TerminalStatuses
      /\ LastStatus = "Completed" => last.prev.result = TRUE )
        => /\ payment.state = last.preState
           /\ last.prev.sameData => ~last.infoChanged

\* a second Completed after a first one that confirmed the payment
C1_Witness ==
    /\ ProcessCalled
    /\ last.prev.sameData
    /\ LastStatus = "Completed"
    /\ last.prev.result = TRUE
    /\ payment.state = PAYMENT_STATE_CONFIRMED

\* C2 (as stated): Completed ends with the payment confirmed from every
\* state; an already confirmed payment is not confirmed again.
C2_CompletedAlwaysConfirms ==
    (ProcessCalled /\ LastStatus = "Completed")
        => /\ payment.state = PAYMENT_STATE_CONFIRMED
           /\ last.preState = PAYMENT_STATE_CONFIRMED => ~Invoked("confirm")

\* C2 (amended): Completed on a payment that is not confirmed invokes
\* confirm; when confirm returns the payment is confirmed and True returned,
\* when it raises False is returned.  An already confirmed payment stays
\* confirmed, confirm is not invoked and True is returned.
C2_CompletedConfirms ==
    (ProcessCalled /\ LastStatus = "Completed")
        => IF last.preState # PAYMENT_STATE_CONFIRMED
           THEN /\ Invoked("confirm")
                /\ ~Invoked("confirm_raised")
                      => payment.state = PAYMENT_STATE_CONFIRMED /\ last.result = TRUE
                /\ Invoked("confirm_raised") => last.result = FALSE
           ELSE /\ payment.state = PAYMENT_STATE_CONFIRMED
                /\ ~Invoked("confirm")
                /\ last.result = TRUE

\* a refunded payment confirmed by Completed
C2_Witness ==
    /\ ProcessCalled
    /\ LastStatus = "Completed"
    /\ last.preState = PAYMENT_STATE_REFUNDED
    /\ payment.state = PAYMENT_STATE_CONFIRMED

\* C3: Failed and Timeout end with the payment failed, fail invoked, unless
\* it was failed or canceled: then the state is unchanged and fail is not
\* invoked.
C3_FailedOrTimeoutFails ==
    (ProcessCalled /\ LastStatus \in {"Failed", "Timeout"})
        => IF last.preState \notin {PAYMENT_STATE_FAILED, PAYMENT_STATE_CANCELED}
           THEN payment.state = PAYMENT_STATE_FAILED /\ Invoked("fail")
           ELSE payment.state = last.preState /\ ~Invoked("fail")

\* a Timeout for a canceled payment
C3_Witness ==
    /\ ProcessCalled
    /\ LastStatus = "Timeout"
    /\ last.preState = PAYMENT_STATE_CANCELED
    /\ payment.state = PAYMENT_STATE_CANCELED

\* C4: ReceiptNotReceived ends with the payment pending, from every state,
\* and returns False.
C4_ReceiptNotReceivedPending ==
    (ProcessCalled /\ LastStatus = "ReceiptNotReceived")
        => payment.state = PAYMENT_STATE_PENDING /\ last.result = FALSE

\* a confirmed payment put back to pending
C4_Witness ==
    /\ ProcessCalled
    /\ LastStatus = "ReceiptNotReceived"
    /\ last.preState = PAYMENT_STATE_CONFIRMED
    /\ payment.state = PAYMENT_STATE_PENDING

\* C5: every other status code leaves the payment state as it was, invokes
\* neither confirm nor fail, and returns False.
C5_UnknownStatusLeavesState ==
    ( /\ ProcessCalled
      /\ LastStatus \notin {"Completed", "Failed", "Timeout", "ReceiptNotReceived"} )
        => /\ payment.state = last.preState
           /\ ~Invoked("confirm") /\ ~Invoked("fail") /\ ~Invoked("save_state")
           /\ last.result = FALSE

\* status Initiated for a pending payment
C5_Witness ==
    /\ ProcessCalled
    /\ LastStatus = "Initiated"
    /\ last.preState = PAYMENT_STATE_PENDING
    /\ last.infoChanged

\* C6: every reconciliation call writes the payload it was given to
\* payment.info, before anything else it does.
C6_PayloadPersistedFirst ==
    ProcessCalled
        => /\ Len(last.effects) >= 1
           /\ last.effects[1] = "save_info"
           /\ payment.info = JsonDumps(last.data)

GatewayOps == { "checkout_prepare", "payment_prepare", "execute_payment" }

\* C7: an operation that calls the gateway makes at most one HTTP request,
\* and when that request fails (no answer, or a non-2xx answer) a
\* PaymentException is raised to the caller.
C7_GatewayFailureRaises ==
    last.op \in GatewayOps
        => /\ last.http <= 1
           /\ (last.http = 1 /\ last.data.net # "ok") => last.raised = PaymentException

\* C8: payment_prepare, answered Success=false with ErrorCode c and
\* ErrorMessage m, raises PaymentException, writes one payment.failed log
\* entry with error 'c: m', and leaves payment.info and the session alone.
C8_RejectedInitiateLogged ==
    ( /\ last.op = "payment_prepare"
      /\ last.data.net = "ok"
      /\ ~Success(last.data.body)
      /\ {"ErrorCode", "ErrorMessage"} \subseteq DOMAIN last.data.body )
        => /\ last.raised = PaymentException
           /\ Len(last.logged) = 1
           /\ last.logged[1].type = "pretix.event.order.payment.failed"
           /\ last.logged[1].error
                 = last.data.body.ErrorCode \o ": " \o last.data.body.ErrorMessage
           /\ orderLog[Len(orderLog)] = last.logged[1]
           /\ ~last.infoChanged
           /\ ~last.sessionChanged

\* the scenario of the specification: E1, bad merchant
C8_Witness ==
    /\ last.op = "payment_prepare"
    /\ last.raised = PaymentException
    /\ Len(last.logged) = 1
    /\ last.logged[1].error = "E1: bad merchant"
    /\ payment.info # EmptyInfo

\* C9: an initiate answered Success=true returns the NavigateURL and leaves
\* the TransactionRefNo in the session key payment_poli_token;
\* payment_prepare stores the reference in payment.info too.
C9_InitiatedStoresToken ==
    ( /\ last.op \in {"checkout_prepare", "payment_prepare"}
      /\ last.data.net = "ok"
      /\ Success(last.data.body) )
        => /\ last.result = last.data.body.NavigateURL
           /\ Get(session, "payment_poli_token") = last.data.body.TransactionRefNo
           /\ last.op = "payment_prepare"
                 => /\ payment.info.kind = "object"
                    /\ Get(payment.info.members, "transaction_ref_no")
                          = last.data.body.TransactionRefNo

\* the scenario of the specification, through payment_prepare
C9_Witness ==
    /\ last.op = "payment_prepare"
    /\ last.result = "https://pay/T1"
    /\ Get(session, "payment_poli_token") = "T1"
    /\ Get(payment.info.members, "transaction_ref_no") = "T1"

\* C10: is_allowed answers true only for NZD and AUD with the base check
\* allowing, and false for every other currency whatever the base check says.
C10_CurrencyRestriction ==
    last.op = "is_allowed"
        => /\ last.result = TRUE => (last.data.currency \in {"NZD", "AUD"} /\ last.data.base)
           /\ last.data.currency \notin {"NZD", "AUD"} => last.result = FALSE
           /\ (last.data.currency \in {"NZD", "AUD"} /\ last.data.base) => last.result = TRUE

\* the base check allows, the currency does not
C10_Witness ==
    /\ last.op = "is_allowed"
    /\ last.data.currency = "USD"
    /\ last.data.base
    /\ last.result = FALSE

ReminderRan == last.op = "send_pending_payment_reminder"

\* the order as the reminder task found it is one to remind: it exists, is
\* not paid, has no confirmed POLi payment, is neither expired nor canceled
ShouldRemind ==
    /\ last.data.order.exists
    /\ last.data.order.status # STATUS_PAID
    /\ ~(last.data.order.poli /\ last.preState = PAYMENT_STATE_CONFIRMED)
    /\ last.data.order.status \notin {STATUS_EXPIRED, STATUS_CANCELED}

\* C11: the reminder task sends the order-placed mail only for an order that
\* exists, is not paid, has no confirmed POLi payment and is neither expired
\* nor canceled; otherwise it sends nothing, raises nothing and leaves the
\* order and the payment as they were.
C11_ReminderOnlyWhenUnpaid ==
    ReminderRan
        => /\ Invoked("send_mail") => ShouldRemind
           /\ last.raised = None
           /\ ~ShouldRemind
                 => /\ ~Invoked("send_mail")
                    /\ outbox = last.data.outbox
                    /\ order = last.data.order
                    /\ payment.state = last.preState
                    /\ ~last.infoChanged

\* the order was paid between scheduling and firing: nothing is sent
C11_Witness ==
    /\ ReminderRan
    /\ last.data.order.status = STATUS_PAID
    /\ ~Invoked("send_mail")
    /\ outbox = last.data.outbox

ScheduleRan == last.op = "schedule_payment_reminder"

\* C12: for an order with a POLi payment the order_placed receiver raises
\* nothing; when enqueueing fails the queue is as it was, when it succeeds
\* exactly one more task is pending, for this order, due two hours later.
C12_ScheduleNeverRaises ==
    (ScheduleRan /\ order.poli)
        => /\ last.raised = None
           /\ last.data.enqueueRaises => last.data.pending = last.data.before
           /\ ~last.data.enqueueRaises
                 => /\ Len(last.data.pending) = Len(last.data.before) + 1
                    /\ SubSeq(last.data.pending, 1, Len(last.data.before))
                          = last.data.before
                    /\ LET task == last.data.pending[Len(last.data.pending)]
                       IN  /\ task.order_code = OrderCode
                           /\ task.event_id = EventPk
                           /\ task.eta = last.data.clock + REMINDER_HOURS

\* enqueueing failed, the failure was logged and the handler returned
C12_Witness ==
    /\ ScheduleRan
    /\ order.poli
    /\ last.data.enqueueRaises
    /\ Invoked("logged")
    /\ last.raised = None
    /\ tasks = <<>>

\* C13: when the reminder task fires for an order with a POLi payment that
\* is still to be reminded and the mail is handed to the pipeline, the mail
\* is delivered: this plugin's email filter does not drop it.
C13_ReminderDelivered ==
    (ReminderRan /\ last.data.order.poli /\ ShouldRemind /\ ~last.data.sendRaises)
        => /\ Invoked("delivered")
           /\ Mail(last.data.subject) \in outbox

ShredRan == last.op = "shred_payment_info"

\* C14: for an info that is a JSON object, shred_payment_info stores an
\* object whose keys are exactly the allow-list and _shredded, _shredded
\* true, each allow-listed key with the value it had (null when it was
\* absent); no other key is left.
C14_ShredKeepsAllowList ==
    (ShredRan /\ last.data.kind = "object")
        => /\ payment.info.kind = "object"
           /\ DOMAIN payment.info.members = ShredKeys \cup {"_shredded"}
           /\ payment.info.members["_shredded"] = TRUE
           /\ \A k \in ShredKeys :
                 payment.info.members[k] = Get(last.data.members, k)
           /\ last.raised = None

\* a full gateway record was redacted: the payer's account number is gone
C14_Witness ==
    /\ ShredRan
    /\ last.data.kind = "object"
    /\ "PayerAcctNumber" \in DOMAIN last.data.members
    /\ "PayerAcctNumber" \notin DOMAIN payment.info.members
    /\ payment.info.members["TransactionRefNo"] = "T1"

\* an info as shred_payment_info leaves it
IsShredded(info) ==
    /\ info.kind = "object"
    /\ DOMAIN info.members \subseteq ShredKeys \cup {"_shredded"}
    /\ "_shredded" \in DOMAIN info.members
    /\ info.members["_shredded"] = TRUE

\* the provider's operations that write the info
InfoWriters == { "process_transaction_result", "execute_payment", "payment_prepare" }

\* C15: a redacted info stays redacted under every operation of the
\* provider that follows.
C15_ShreddedStaysShredded ==
    [][ (IsShredded(payment.info) /\ last'.op \in InfoWriters)
            => IsShredded(payment'.info) ]_vars

\* C16: for an info that cannot be redacted (empty, not JSON, or JSON that
\* is not an object) shred_payment_info raises nothing and leaves the info
\* as it was.
C16_UnshreddableLeftAlone ==
    (ShredRan /\ last.data.kind # "object")
        => /\ last.raised = None
           /\ payment.info = last.data

CancelRan == last.op = "cancel"

\* the request named the order, its secret and this payment
PathMatches ==
    /\ last.data.exists
    /\ last.data.order_code = OrderCode
    /\ last.data.hash = OrderSecret
    /\ last.data.payment_id = PaymentPk

\* C17: the cancel endpoint changes the state of the payment only when the
\* order exists, the hash in the path is the order's secret and the payment
\* is in state created; then the payment is canceled.  Otherwise the state
\* is unchanged.
C17_CancelOnlyCreated ==
    CancelRan
        => /\ IF PathMatches /\ last.preState = PAYMENT_STATE_CREATED
              THEN payment.state = PAYMENT_STATE_CANCELED /\ Invoked("cancel")
              ELSE payment.state = last.preState /\ ~Invoked("cancel")
           /\ ~last.infoChanged
           /\ last.raised = None

\* a created payment canceled by its buyer
C17_Witness ==
    /\ CancelRan
    /\ PathMatches
    /\ last.preState = PAYMENT_STATE_CREATED
    /\ payment.state = PAYMENT_STATE_CANCELED

ReturnRan == last.op = "return"

\* C18: when the token is missing, the order or the payment is not found,
\* or the hash in the path is not the order's secret, the return endpoint
\* asks the gateway nothing, does not call process_transaction_result and
\* leaves the state and the info of the payment as they were.
C18_SecretCheckedFirst ==
    (ReturnRan /\ (~Truthy(last.data.token) \/ ~PathMatches))
        => /\ last.http = 0
           /\ last.effects = <<>>
           /\ payment.state = last.preState
           /\ ~last.infoChanged

\* a return request with a token and a wrong hash for an existing order
C18_Witness ==
    /\ ReturnRan
    /\ Truthy(last.data.token)
    /\ last.data.exists
    /\ last.data.order_code = OrderCode
    /\ last.data.payment_id = PaymentPk
    /\ last.data.hash # OrderSecret
    /\ last.result = RedirectIndex
    /\ last.http = 0

WebhookRan == last.op = "webhook"

\* C19: the webhook leaves the order, the state and the info of the payment
\* and the session as they were and asks the gateway nothing; it answers 400
\* when the token is missing or empty and 200 OK otherwise.
C19_WebhookChangesNothing ==
    WebhookRan
        => /\ payment.state = last.preState
           /\ ~last.infoChanged
           /\ ~last.sessionChanged
           /\ order.exists = last.data.exists
           /\ last.http = 0
           /\ last.effects = <<>>
           /\ last.logged = <<>>
           /\ last.result = IF last.data.token \in {None, ""} THEN BadRequest ELSE HttpOK

\* a webhook call with an empty token, answered 400
C19_Witness ==
    /\ WebhookRan
    /\ last.data.token = ""
    /\ last.result = BadRequest

Returned(i) == requests[i].pc \in {"returned_true", "returned_false"}

AllReturned == \A i \in RequestIds : Returned(i)

\* some request's own confirm() returned normally
SomeConfirmReturned ==
    \E i \in RequestIds :
        /\ requests[i].pc = "returned_true"
        /\ requests[i].loaded # PAYMENT_STATE_CONFIRMED

\* C20 (as stated): under every interleaving of concurrent Completed
\* reconciliations of a payment that is not confirmed, every call can run to
\* its end and the payment then is confirmed.
C20_RaceEndsConfirmed ==
    /\ \A i \in RequestIds : Returned(i) \/ ENABLED (RaceLoad(i) \/ RaceSaveInfo(i)
                                \/ RaceCheck(i) \/ RaceConfirm(i, FALSE))
    /\ AllReturned => payment.state = PAYMENT_STATE_CONFIRMED

\* C20 (amended): every call can run to its end; a call that returned True
\* left the payment confirmed, and it stays confirmed; when all returned the
\* payment is confirmed if some confirm() returned normally and otherwise is
\* in the state it was loaded in, every call having returned False.
C20_RaceConfirmedUnlessConfirmRaises ==
    /\ \A i \in RequestIds : Returned(i) \/ ENABLED (RaceLoad(i) \/ RaceSaveInfo(i)
                                \/ RaceCheck(i) \/ RaceConfirm(i, FALSE))
    /\ \A i \in RequestIds :
          requests[i].pc = "returned_true" => payment.state = PAYMENT_STATE_CONFIRMED
    /\ AllReturned =>
          IF SomeConfirmReturned
          THEN payment.state = PAYMENT_STATE_CONFIRMED
          ELSE \A i \in RequestIds :
                  /\ requests[i].pc = "returned_false"
                  /\ payment.state = requests[i].loaded

\* both requests loaded the payment before either confirmed it, both passed
\* the test and both confirmed
C20_Witness ==
    /\ AllReturned
    /\ \A i \in RequestIds :
          /\ requests[i].pc = "returned_true"
          /\ requests[i].loaded # PAYMENT_STATE_CONFIRMED
    /\ payment.state = PAYMENT_STATE_CONFIRMED

MailRan == last.op = "mail"

\* the subject of the message the host sent, lower-cased; "" without one
SentSubject ==
    IF "subject" \in DOMAIN last.data.message THEN Lower(last.data.message.subject) ELSE ""

\* C21: the email filter drops a message exactly when it is about an order,
\* the order has a POLi payment and the lower-cased subject contains
\* 'your order:' and not 'payment received'; every other message leaves the
\* pipeline as it was handed in.
C21_FilterDropsOrderPlaced ==
    MailRan
        => IF /\ last.data.kind # "no_order"
              /\ order.poli
              /\ Contains("your order:", SentSubject)
              /\ ~Contains("payment received", SentSubject)
           THEN last.effects = <<"dropped">>
           ELSE last.effects = <<"delivered">> /\ last.data.message \in outbox

\* the order-placed mail of an order with a POLi payment was dropped
C21_Witness ==
    /\ MailRan
    /\ last.data.kind = "order_placed"
    /\ order.poli
    /\ last.effects = <<"dropped">>
    /\ last.data.message \notin outbox

ExecuteRan == last.op = "execute_payment"

\* the session held a token when execute_payment ran
HadToken == Truthy(Get(session, "payment_poli_token"))

\* the status query was made and answered with a body
QueryAnswered == last.http = 1 /\ last.data.net = "ok"

\* C22: execute_payment returns normally exactly when the session holds a
\* token, the status query is answered, the status is Completed and the
\* payment is confirmed afterwards; otherwise it raises PaymentException,
\* and without a token or without an answer it raises with the state and
\* the info of the payment untouched.
C22_ExecuteReturnsOnlyConfirmed ==
    ExecuteRan
        => /\ ~last.sessionChanged
           /\ last.raised \in {None, PaymentException}
           /\ last.raised = None
                 <=> /\ HadToken
                     /\ QueryAnswered
                     /\ Get(last.data.body, "TransactionStatusCode") = "Completed"
                     /\ payment.state = PAYMENT_STATE_CONFIRMED
           /\ (~HadToken \/ ~QueryAnswered)
                 => /\ last.raised = PaymentException
                    /\ payment.state = last.preState
                    /\ ~last.infoChanged
                    /\ last.effects = <<>>

\* Completed for a payment whose confirm() raised: PaymentException, the
\* payment not confirmed
C22_Witness ==
    /\ ExecuteRan
    /\ HadToken
    /\ QueryAnswered
    /\ Get(last.data.body, "TransactionStatusCode") = "Completed"
    /\ Invoked("confirm_raised")
    /\ last.raised = PaymentException
    /\ payment.state # PAYMENT_STATE_CONFIRMED

\* the operations of the plugin that are handed a payment
PaymentOps ==
    { "process_transaction_result", "return", "cancel", "webhook", "shred_payment_info" }

\* C23: no operation of the plugin moves a confirmed payment out of state
\* confirmed.
C23_ConfirmedStaysConfirmed ==
    [][ (payment.state = PAYMENT_STATE_CONFIRMED /\ last'.op \in PaymentOps)
            => payment'.state = PAYMENT_STATE_CONFIRMED ]_vars

\* C24: when the return endpoint confirms a payment for which
\* payment_prepare recorded a transaction reference, the token of the
\* request is that reference.
C24_ConfirmsOwnTransactionOnly ==
    ( /\ ReturnRan
      /\ last.preState # PAYMENT_STATE_CONFIRMED
      /\ payment.state = PAYMENT_STATE_CONFIRMED
      /\ last.data.recorded # None )
        => last.data.token = last.data.recorded

\* C25: the cancel endpoint never cancels a payment that a concurrent
\* reconciliation has confirmed or failed in the meantime: when cancel() ran
\* the payment was not in state confirmed or failed.
C25_CancelNotAfterReconciliation ==
    requests[CancelId].pc = "canceled"
        => requests[CancelId].row \notin {PAYMENT_STATE_CONFIRMED, PAYMENT_STATE_FAILED}

============================================================================
